---------------------------- MODULE Spec2Model ----------------------------
(***************************************************************************)
(* The two batch scripts of the repository as one state machine:           *)
(*   Inferring/inferring.py            (pipeline = "reviews")              *)
(*   Summarizing/summury_transform.py  (pipeline = "emails")               *)
(* Texts are TLA+ strings, handled character by character with Len,        *)
(* SubSeq and \o, so that strip, split, replace, lower and `in` are        *)
(* computed the way Python computes them.                                  *)
(***************************************************************************)
EXTENDS Integers, Sequences, FiniteSets, TLC

VARIABLES
    pipeline,           \* which script runs: "reviews" or "emails"
    content,            \* the text of the input file
    pc,                 \* the position of the script
    review_content,     \* inferring.py: the blocks read_reviews returned
    idx,                \* 1-based position of the for loop in its list
    item,               \* inferring.py: local of process_reviews
    company,            \* inferring.py: local of process_reviews
    sentiment_response, \* inferring.py: local of analyze_sentiment_...
    message_prompt,     \* inferring.py: local of analyze_sentiment_...
    reviews,            \* inferring.py: the accumulating output list
    email_content,      \* summury_transform.py: the blocks read_emails split
    emails,             \* summury_transform.py: what read_emails returned
    summary,            \* summury_transform.py: local of process_emails
    processed_emails,   \* summury_transform.py: the accumulating output list
    chat_session,       \* the chat session of the function being executed
    csvfile,            \* the output file
    calls,              \* every send_message call issued so far, in order
    slept               \* seconds spent in time.sleep so far

vars == <<pipeline, content, pc, review_content, idx, item, company,
          sentiment_response, message_prompt, reviews, email_content, emails,
          summary, processed_emails, chat_session, csvfile, calls, slept>>

---------------------------------------------------------------------------
(* Bounds of the model.                                                    *)

\* longest input file of SpecRead, in characters
MaxLen == 6
\* most record blocks joined into an input file of Spec
MaxBlocks == 2
\* most fragments concatenated into a sentiment answer of SpecSentiment
MaxTokens == 2

---------------------------------------------------------------------------
(* Python's str operations.                                                *)

Char(s, i) == SubSeq(s, i, i)

Min(S) == CHOOSE m \in S : \A n \in S : m <= n

\* the characters str.strip() removes
Whitespace == {" ", "\n", "\t", "\r"}

RECURSIVE LStrip(_)
LStrip(s) ==
    IF s # "" /\ Char(s, 1) \in Whitespace
    THEN LStrip(SubSeq(s, 2, Len(s)))
    ELSE s

RECURSIVE RStrip(_)
RStrip(s) ==
    IF s # "" /\ Char(s, Len(s)) \in Whitespace
    THEN RStrip(SubSeq(s, 1, Len(s) - 1))
    ELSE s

\* s.strip()
Strip(s) == RStrip(LStrip(s))

\* s.find(sub) + 1: the first position where sub starts in s, 0 when none
Find(s, sub) ==
    LET At == {i \in 1..(Len(s) - Len(sub) + 1) :
                   SubSeq(s, i, i + Len(sub) - 1) = sub}
    IN  IF At = {} THEN 0 ELSE Min(At)

\* sub in s
Contains(s, sub) == Find(s, sub) # 0

\* s.split(sep, 1): the split stops at the first separator
SplitOnce(s, sep) ==
    LET i == Find(s, sep)
    IN  IF i = 0
        THEN <<s>>
        ELSE <<SubSeq(s, 1, i - 1), SubSeq(s, i + Len(sep), Len(s))>>

\* s.split(sep): left to right, non-overlapping; [s] when sep does not occur
RECURSIVE Split(_, _)
Split(s, sep) ==
    LET i == Find(s, sep)
    IN  IF i = 0
        THEN <<s>>
        ELSE <<SubSeq(s, 1, i - 1)>> \o Split(SubSeq(s, i + Len(sep), Len(s)), sep)

\* s.replace(old, new): every non-overlapping occurrence, left to right
RECURSIVE Replace(_, _, _)
Replace(s, old, new) ==
    LET i == Find(s, old)
    IN  IF i = 0
        THEN s
        ELSE SubSeq(s, 1, i - 1) \o new
                 \o Replace(SubSeq(s, i + Len(old), Len(s)), old, new)

\* sep.join(parts)
RECURSIVE Join(_, _)
Join(parts, sep) ==
    IF parts = <<>> THEN ""
    ELSE IF Len(parts) = 1 THEN parts[1]
    ELSE parts[1] \o sep \o Join(Tail(parts), sep)

UpperCase == "ABCDEFGHIJKLMNOPQRSTUVWXYZ"
LowerCase == "abcdefghijklmnopqrstuvwxyz"

LowerChar(c) ==
    LET At == {i \in 1..Len(UpperCase) : Char(UpperCase, i) = c}
    IN  IF At = {} THEN c ELSE Char(LowerCase, Min(At))

\* s.lower()
RECURSIVE Lower(_)
Lower(s) ==
    IF s = "" THEN ""
    ELSE LowerChar(Char(s, 1)) \o Lower(SubSeq(s, 2, Len(s)))

\* x or default
OrDefault(x, default) == IF x = "" THEN default ELSE x

\* lines[n:] of a list
From(lines, n) == SubSeq(lines, n + 1, Len(lines))

---------------------------------------------------------------------------
(* Constants of the two scripts.                                           *)

END == "END"

UNKNOWN == "unknown"

\* time.sleep(20)
SleepSeconds == 20

\* if len(lines) < 4
MinLines == 4

review_fieldnames == <<"Item", "Company", "Sentiment", "Response Message">>

email_fieldnames == <<"From", "To", "Subject", "Summary", "Translated Summary">>

ItemPrompt(body) ==
    "Identify the purchased item in the following review. Respond with only the item name:\n\n"
        \o body \o "\n"

CompanyPrompt(body) ==
    "Identify the company name in the following review. Respond with only the company name:\n\n"
        \o body \o "\n"

SentimentPrompt(body) ==
    "Analyze the sentiment of the following review. Respond with only 'positive' or 'negative':\n\n"
        \o body \o "\n"

ThankYouPrompt(body) ==
    "Generate a short thank-you message for this positive review:\n\n" \o body \o "\n"

ApologyPrompt(body) ==
    "Generate a short apology message for this negative review:\n\n" \o body \o "\n"

SummaryPrompt(body) == "Summarize the following email in short:\n\n" \o body \o "\n"

TranslatePrompt(text) == "Translate the following text to Hindi:\n\n" \o text \o "\n"

---------------------------------------------------------------------------
(* The collaborators: the text-generation service and the file system.     *)

\* model.start_chat(history=[])
start_chat == [open |-> TRUE, history |-> <<>>]

\* the session of a function that has returned
NoSession == [open |-> FALSE, history |-> <<>>]

\* a session that forgets what was sent on it
SentForgotten(session, prompt, text) == session

\* chat_session.send_message(prompt) answered with text: the session keeps
\* the prompt and the answer in its history
Sent(session, prompt, text) ==
    [session EXCEPT !.history =
        @ \o <<[role |-> "user", text |-> prompt], [role |-> "model", text |-> text]>>]

\* what a send_message call can do: return a text, or raise
Outcomes(texts) ==
    {[ok |-> TRUE, text |-> t] : t \in texts} \cup {[ok |-> FALSE, text |-> ""]}

\* one entry of calls: the call, the session history it was sent on, its outcome
Call(kind, rec, prompt, session, out) ==
    [kind |-> kind, rec |-> rec, prompt |-> prompt, history |-> session.history,
     ok |-> out.ok, text |-> out.text]

\* the answers of the service in Spec: blank, and a text to trim
Responses == {" \n", " Positive\n"}

\* fragments of the sentiment answers of SpecSentiment
Tokens == {"Positive", "POSI", "tive", "posit", "ive.", "negative", " ", "\n", "Sorry, I cannot"}

RECURSIVE Concats(_)
Concats(n) ==
    IF n = 0 THEN {""}
    ELSE Concats(n - 1) \cup {s \o t : s \in Concats(n - 1), t \in Tokens}

SentimentTexts == Concats(MaxTokens)

\* the characters of the input files of SpecRead
Alphabet == {"E", "N", "D", " ", "\n"}

RECURSIVE Texts(_)
Texts(n) ==
    IF n = 0 THEN {""}
    ELSE Texts(n - 1) \cup {s \o c : s \in Texts(n - 1), c \in Alphabet}

ReviewBlocks == {"", "\nGood pen by Acme.\n"}

EmailBlocks ==
    {"",
     "\nFrom: a@x\nTo: b@y\nSubject: Hi\n",
     "\nFrom: c@x\nTo: d@y\nSubject: Re\nBody:\n",
     "\nFrom: e@x\nTo: f@y\nSubject: Yo\n\nBody:\nSee you.\n"}

Blocks(p) == IF p = "reviews" THEN ReviewBlocks ELSE EmailBlocks

\* the input files of Spec: up to MaxBlocks blocks, the delimiter between them
Files(p) ==
    {Join(bs, END) : bs \in UNION {[1..n -> Blocks(p)] : n \in 1..MaxBlocks}}

---------------------------------------------------------------------------
(* The state after construction.                                           *)

Start(p, c) ==
    /\ pipeline = p
    /\ content = c
    /\ pc = "start"
    /\ review_content = <<>>
    /\ idx = 0
    /\ item = ""
    /\ company = ""
    /\ sentiment_response = ""
    /\ message_prompt = ""
    /\ reviews = <<>>
    /\ email_content = <<>>
    /\ emails = <<>>
    /\ summary = ""
    /\ processed_emails = <<>>
    /\ chat_session = NoSession
    /\ csvfile = [state |-> "absent", rows |-> <<>>]
    /\ calls = <<>>
    /\ slept = 0

Init == \E p \in {"reviews", "emails"} : \E c \in Files(p) : Start(p, c)

\* the exception is caught and the script goes on to write what it has
Swallow == pc' = "write"

\* an uncaught exception ends the run
Raise == pc' = "aborted"

\* list.insert(0, row)
Prepended(list, row) == <<row>> \o list

\* list.append(row)
Appended(list, row) == Append(list, row)

---------------------------------------------------------------------------
(* inferring.py                                                            *)

\* for ... in list: the loop body at position i, or what follows the loop
LoopAt(list, i, body, after) == IF i <= Len(list) THEN body ELSE after

\* file.read().strip().split('\n')
read_reviews_by_line(text) == Split(Strip(text), "\n")

read_reviews(text) == Split(Strip(text), END)

ReadReviews(ok) ==
    /\ pc = "start"
    /\ pipeline = "reviews"
    /\ IF ok
       THEN /\ review_content' = read_reviews(content)
            /\ reviews' = <<>>
            /\ idx' = 1
            /\ pc' = LoopAt(review_content', 1, "item", "write")
       ELSE /\ Raise
            /\ UNCHANGED <<review_content, reviews, idx>>
    /\ UNCHANGED <<pipeline, content, item, company, sentiment_response,
                   message_prompt, email_content, emails, summary,
                   processed_emails, chat_session, csvfile, calls, slept>>

\* body = review.strip()
Body == Strip(review_content[idx])

\* the item without `or "unknown"`
ItemValueNoFallback(text) == Strip(text)

ItemValue(text) == OrDefault(Strip(text), UNKNOWN)

SendItem(out) ==
    /\ pc = "item"
    /\ calls' = Append(calls, Call("item", idx, ItemPrompt(Body), start_chat, out))
    /\ IF out.ok
       THEN /\ chat_session' = Sent(start_chat, ItemPrompt(Body), out.text)
            /\ item' = ItemValue(out.text)
            /\ pc' = "company"
       ELSE /\ Raise
            /\ chat_session' = start_chat
            /\ UNCHANGED item
    /\ UNCHANGED <<pipeline, content, review_content, idx, company,
                   sentiment_response, message_prompt, reviews, email_content,
                   emails, summary, processed_emails, csvfile, slept>>

CompanyValue(text) == OrDefault(Strip(text), UNKNOWN)

SendCompany(out) ==
    /\ pc = "company"
    /\ calls' = Append(calls, Call("company", idx, CompanyPrompt(Body), chat_session, out))
    /\ IF out.ok
       THEN /\ company' = CompanyValue(out.text)
            /\ chat_session' = NoSession
            /\ pc' = "sentiment"
       ELSE /\ Raise
            /\ UNCHANGED <<company, chat_session>>
    /\ UNCHANGED <<pipeline, content, review_content, idx, item,
                   sentiment_response, message_prompt, reviews, email_content,
                   emails, summary, processed_emails, csvfile, slept>>

\* if "positive" in sentiment_response
IsPositiveCaseSensitive(response) == Contains(response, "positive")

\* if "positive" in sentiment_response.lower()
IsPositive(response) == Contains(Lower(response), "positive")

MessagePrompt(response, body) ==
    IF IsPositive(response) THEN ThankYouPrompt(body) ELSE ApologyPrompt(body)

SendSentiment(out) ==
    /\ pc = "sentiment"
    /\ calls' = Append(calls, Call("sentiment", idx, SentimentPrompt(Body), start_chat, out))
    /\ IF out.ok
       THEN /\ sentiment_response' = Strip(out.text)
            /\ message_prompt' = MessagePrompt(sentiment_response', Body)
            /\ chat_session' = Sent(start_chat, SentimentPrompt(Body), out.text)
            /\ pc' = "message"
       ELSE /\ Raise
            /\ chat_session' = start_chat
            /\ UNCHANGED <<sentiment_response, message_prompt>>
    /\ UNCHANGED <<pipeline, content, review_content, idx, item, company,
                   reviews, email_content, emails, summary, processed_emails,
                   csvfile, slept>>

\* what analyze_sentiment_and_generate_message returns first
ReturnedSentiment(response) == response

Review(i, c, s, m) ==
    [item |-> i, company |-> c, sentiment |-> s, response_message |-> m]

SendMessage(out) ==
    /\ pc = "message"
    /\ calls' = Append(calls, Call("message", idx, message_prompt, chat_session, out))
    /\ IF out.ok
       THEN /\ reviews' = Appended(reviews,
                                Review(item, company,
                                       ReturnedSentiment(sentiment_response),
                                       Strip(out.text)))
            /\ chat_session' = NoSession
            /\ pc' = "sleep"
       ELSE /\ Raise
            /\ UNCHANGED <<reviews, chat_session>>
    /\ UNCHANGED <<pipeline, content, review_content, idx, item, company,
                   sentiment_response, message_prompt, email_content, emails,
                   summary, processed_emails, csvfile, slept>>

\* time.sleep(20), then the next review or the end of the loop
Sleep ==
    /\ pc = "sleep"
    /\ slept' = slept + SleepSeconds
    /\ idx' = idx + 1
    /\ pc' = LoopAt(review_content, idx + 1, "item", "write")
    /\ UNCHANGED <<pipeline, content, review_content, item, company,
                   sentiment_response, message_prompt, reviews, email_content,
                   emails, summary, processed_emails, chat_session, csvfile,
                   calls>>

---------------------------------------------------------------------------
(* summury_transform.py                                                    *)

\* if len(lines) <= 4: continue
IncompleteOffByOne(lines) == Len(lines) <= MinLines

\* if len(lines) < 4: continue
Incomplete(lines) == Len(lines) < MinLines

ParseEmail(lines) ==
    [from    |-> Strip(Replace(lines[1], "From: ", "")),
     to      |-> Strip(Replace(lines[2], "To: ", "")),
     subject |-> Strip(Replace(lines[3], "Subject: ", "")),
     body    |-> Strip(Replace(Join(From(lines, MinLines), "\n"), "Body:\n", ""))]

\* the for loop of read_emails over email_content
RECURSIVE ParseEmails(_)
ParseEmails(blocks) ==
    IF blocks = <<>> THEN <<>>
    ELSE LET lines == Split(Strip(Head(blocks)), "\n")
         IN  IF Incomplete(lines)
             THEN ParseEmails(Tail(blocks))
             ELSE <<ParseEmail(lines)>> \o ParseEmails(Tail(blocks))

\* email_content = file.read().strip().split('END')
split_emails(text) == Split(Strip(text), END)

read_emails(text) == ParseEmails(split_emails(text))

ReadEmails(ok) ==
    /\ pc = "start"
    /\ pipeline = "emails"
    /\ IF ok
       THEN /\ email_content' = split_emails(content)
            /\ emails' = read_emails(content)
            /\ processed_emails' = <<>>
            /\ idx' = 1
            /\ pc' = LoopAt(emails', 1, "summary", "write")
       ELSE /\ Raise
            /\ UNCHANGED <<email_content, emails, processed_emails, idx>>
    /\ UNCHANGED <<pipeline, content, review_content, item, company,
                   sentiment_response, message_prompt, reviews, summary,
                   chat_session, csvfile, calls, slept>>

SendSummary(out) ==
    /\ pc = "summary"
    /\ calls' = Append(calls,
                       Call("summary", idx, SummaryPrompt(emails[idx].body), start_chat, out))
    /\ IF out.ok
       THEN /\ summary' = Strip(out.text)
            /\ chat_session' = NoSession
            /\ pc' = "translate"
       ELSE /\ Raise
            /\ chat_session' = start_chat
            /\ UNCHANGED summary
    /\ UNCHANGED <<pipeline, content, review_content, idx, item, company,
                   sentiment_response, message_prompt, reviews, email_content,
                   emails, processed_emails, csvfile, slept>>

ProcessedEmail(email, s, t) ==
    [From |-> email.from, To |-> email.to, Subject |-> email.subject, Summary |-> s]
        @@ ("Translated Summary" :> t)

SendTranslate(out) ==
    /\ pc = "translate"
    /\ calls' = Append(calls,
                       Call("translate", idx, TranslatePrompt(summary), start_chat, out))
    /\ IF out.ok
       THEN /\ processed_emails' =
                   Appended(processed_emails,
                            ProcessedEmail(emails[idx], summary, Strip(out.text)))
            /\ chat_session' = NoSession
            /\ idx' = idx + 1
            /\ pc' = LoopAt(emails, idx + 1, "summary", "write")
       ELSE /\ Raise
            /\ chat_session' = start_chat
            /\ UNCHANGED <<processed_emails, idx>>
    /\ UNCHANGED <<pipeline, content, review_content, item, company,
                   sentiment_response, message_prompt, reviews, email_content,
                   emails, summary, csvfile, slept>>

---------------------------------------------------------------------------
(* The tabular writer of both scripts.                                     *)

\* the list handed to the writer
Data == IF pipeline = "reviews" THEN reviews ELSE processed_emails

\* the column list the writer is constructed with
Fieldnames == IF pipeline = "reviews" THEN review_fieldnames ELSE email_fieldnames

\* the dictionary handed to writer.writerow
RowDict(row) ==
    IF pipeline = "reviews"
    THEN [Item |-> row.item, Company |-> row.company, Sentiment |-> row.sentiment]
             @@ ("Response Message" :> row.response_message)
    ELSE row

\* csv.DictWriter: the cells of a dictionary, in the order of fieldnames
Cells(fieldnames, dict) == [i \in 1..Len(fieldnames) |-> dict[fieldnames[i]]]

\* a header written only when there is data
WithHeaderIfData(rows, fieldnames) ==
    IF Data = <<>> THEN rows ELSE Append(rows, fieldnames)

\* writer.writeheader(): the column list becomes the next row of the file
WithHeader(rows, fieldnames) == Append(rows, fieldnames)

\* open(output_file_path, 'w'): creates or truncates the file
OpenCsv(ok) ==
    /\ pc = "write"
    /\ IF ok
       THEN /\ csvfile' = [state |-> "open", rows |-> <<>>]
            /\ pc' = "header"
       ELSE /\ Raise
            /\ UNCHANGED csvfile
    /\ UNCHANGED <<pipeline, content, review_content, idx, item, company,
                   sentiment_response, message_prompt, reviews, email_content,
                   emails, summary, processed_emails, chat_session, calls,
                   slept>>

WriteHeader(ok) ==
    /\ pc = "header"
    /\ IF ok
       THEN /\ csvfile' = [csvfile EXCEPT !.rows = WithHeader(@, Fieldnames)]
            /\ idx' = 1
            /\ pc' = "rows"
       ELSE /\ Raise
            /\ csvfile' = [csvfile EXCEPT !.state = "closed"]
            /\ UNCHANGED idx
    /\ UNCHANGED <<pipeline, content, review_content, item, company,
                   sentiment_response, message_prompt, reviews, email_content,
                   emails, summary, processed_emails, chat_session, calls,
                   slept>>

\* one writer.writerow of the loop (reviews) or of writer.writerows (emails)
WriteRow(ok) ==
    /\ pc = "rows"
    /\ idx <= Len(Data)
    /\ IF ok
       THEN /\ csvfile' = [csvfile EXCEPT
                              !.rows = Append(@, Cells(Fieldnames, RowDict(Data[idx])))]
            /\ idx' = idx + 1
            /\ UNCHANGED pc
       ELSE /\ Raise
            /\ csvfile' = [csvfile EXCEPT !.state = "closed"]
            /\ UNCHANGED idx
    /\ UNCHANGED <<pipeline, content, review_content, item, company,
                   sentiment_response, message_prompt, reviews, email_content,
                   emails, summary, processed_emails, chat_session, calls,
                   slept>>

\* the end of the with block, and the closing print of main
CloseCsv ==
    /\ pc = "rows"
    /\ idx > Len(Data)
    /\ csvfile' = [csvfile EXCEPT !.state = "closed"]
    /\ pc' = "done"
    /\ UNCHANGED <<pipeline, content, review_content, idx, item, company,
                   sentiment_response, message_prompt, reviews, email_content,
                   emails, summary, processed_emails, chat_session, calls,
                   slept>>

---------------------------------------------------------------------------
(* The specifications.                                                     *)

Next ==
    \/ \E ok \in BOOLEAN : ReadReviews(ok)
    \/ \E out \in Outcomes(Responses) : SendItem(out)
    \/ \E out \in Outcomes(Responses) : SendCompany(out)
    \/ \E out \in Outcomes(Responses) : SendSentiment(out)
    \/ \E out \in Outcomes(Responses) : SendMessage(out)
    \/ Sleep
    \/ \E ok \in BOOLEAN : ReadEmails(ok)
    \/ \E out \in Outcomes(Responses) : SendSummary(out)
    \/ \E out \in Outcomes(Responses) : SendTranslate(out)
    \/ \E ok \in BOOLEAN : OpenCsv(ok)
    \/ \E ok \in BOOLEAN : WriteHeader(ok)
    \/ \E ok \in BOOLEAN : WriteRow(ok)
    \/ CloseCsv

\* both scripts, run on every input file of Files
Spec == Init /\ [][Next]_vars

InitRead == \E p \in {"reviews", "emails"} : \E c \in Texts(MaxLen) : Start(p, c)

NextRead ==
    \/ \E ok \in BOOLEAN : ReadReviews(ok)
    \/ \E ok \in BOOLEAN : ReadEmails(ok)

\* the record readers of both scripts, run on every text of Texts(MaxLen)
SpecRead == InitRead /\ [][NextRead]_vars

InitSentiment == \E c \in ReviewBlocks : Start("reviews", c)

NextSentiment ==
    \/ ReadReviews(TRUE)
    \/ \E out \in Outcomes({" Pen\n"}) : SendItem(out)
    \/ \E out \in Outcomes({" Acme\n"}) : SendCompany(out)
    \/ \E out \in Outcomes(SentimentTexts) : SendSentiment(out)
    \/ \E out \in Outcomes(Responses) : SendMessage(out)

\* inferring.py on a file of one review, the sentiment call answered with
\* every text of SentimentTexts
SpecSentiment == InitSentiment /\ [][NextSentiment]_vars

---------------------------------------------------------------------------
(* What the claims are stated with.                                        *)

\* the record list the loop of the script runs over
Records == IF pipeline = "reviews" THEN review_content ELSE emails

\* the blocks the record reader split the file into
SplitBlocks == IF pipeline = "reviews" THEN review_content ELSE email_content

\* the calls of one record, in the order the script issues them
Kinds ==
    IF pipeline = "reviews"
    THEN <<"item", "company", "sentiment", "message">>
    ELSE <<"summary", "translate">>

\* the places where the delimiter occurs in s
DelimiterCount(s) ==
    Cardinality({i \in 1..(Len(s) - 2) : SubSeq(s, i, i + 2) = "END"})

\* the record blocks of the input file
RecordCount == DelimiterCount(Strip(content)) + 1

\* the rows of the output file after its header
DataRows == IF csvfile.rows = <<>> THEN 0 ELSE Len(csvfile.rows) - 1

\* the lines of a block after stripping
LineCount(block) ==
    Cardinality({i \in 1..Len(Strip(block)) : Char(Strip(block), i) = "\n"}) + 1

KeptBlocks == SelectSeq(email_content, LAMBDA b : LineCount(b) >= 4)

Blank(text) == \A i \in 1..Len(text) : Char(text, i) \in Whitespace

\* the call of kind k made for record r
CallOf(r, k) ==
    calls[CHOOSE n \in 1..Len(calls) : calls[n].rec = r /\ calls[n].kind = k]

OkCalls == Cardinality({n \in 1..Len(calls) : calls[n].ok})

\* "positive" occurs in text, each letter in either case
HasPositiveAnyCase(text) ==
    \E i \in 1..(Len(text) - 7) :
        \A j \in 1..8 : Char(text, i + j - 1) \in {Char("positive", j), Char("POSITIVE", j)}

---------------------------------------------------------------------------
(* The claims.                                                             *)

\* C1: the prompt of the second call of analyze_sentiment_and_generate_message
\* is the thank-you prompt when the sentiment answer contains "positive" in
\* any letter case and the apology prompt for every other answer, and one
\* such call is made per record.
C1_PromptFollowsSentiment ==
    /\ \A n \in 1..Len(calls) :
           calls[n].kind = "message" =>
               /\ n > 1
               /\ calls[n - 1].kind = "sentiment"
               /\ calls[n - 1].rec = calls[n].rec
               /\ calls[n].prompt =
                      IF HasPositiveAnyCase(calls[n - 1].text)
                      THEN ThankYouPrompt(Strip(review_content[calls[n].rec]))
                      ELSE ApologyPrompt(Strip(review_content[calls[n].rec]))
    /\ \A m, n \in 1..Len(calls) :
           (calls[m].kind = "message" /\ calls[n].kind = "message"
                /\ calls[m].rec = calls[n].rec) => m = n
    /\ \A j \in 1..Len(reviews) :
           \E n \in 1..Len(calls) : calls[n].kind = "message" /\ calls[n].rec = j

\* C1: an answer with "positive" in mixed case was followed by the thank-you
\* prompt.
C1_Witness ==
    \E n \in 2..Len(calls) :
        /\ calls[n].kind = "message"
        /\ ~Contains(calls[n - 1].text, "positive")
        /\ ~Contains(calls[n - 1].text, "Positive")
        /\ calls[n].prompt = ThankYouPrompt(Strip(review_content[calls[n].rec]))

\* C2: in every state the accumulated output rows, and the data rows of the
\* CSV file, are no more than the record blocks of the input file.
C2_RowsAtMostRecords ==
    /\ Len(reviews) <= RecordCount
    /\ Len(processed_emails) <= RecordCount
    /\ DataRows <= RecordCount

\* C2: an email run ended with data rows, and fewer of them than blocks.
C2_Witness ==
    /\ pc = "done"
    /\ pipeline = "emails"
    /\ DataRows >= 1
    /\ DataRows < RecordCount

\* C3: read_emails keeps exactly the blocks of 4 or more lines, in file
\* order, and a finished run has one row for each of them.
C3_ShortBlocksDropped ==
    pipeline = "emails" =>
        /\ Len(emails) = Len(KeptBlocks)
        /\ \A j \in 1..Len(emails) :
               /\ Contains(KeptBlocks[j], "From: " \o emails[j].from)
               /\ Contains(KeptBlocks[j], "Subject: " \o emails[j].subject)
        /\ Len(processed_emails) <= Len(KeptBlocks)
        /\ pc = "done" =>
               /\ Len(processed_emails) = Len(KeptBlocks)
               /\ DataRows = Len(KeptBlocks)

\* C3: a run ended whose file had a short block before a complete one, the
\* complete one in the output.
C3_Witness ==
    /\ pc = "done"
    /\ pipeline = "emails"
    /\ Len(email_content) = 2
    /\ LineCount(email_content[1]) = 3
    /\ LineCount(email_content[2]) >= 4
    /\ Len(processed_emails) = 1

\* C4: a failed call or file operation ends the run: it is the last call, no
\* call is made twice, nothing can follow, and the output file is opened
\* only after every call of every record has succeeded.
C4_FailureAbortsRun ==
    /\ \A n \in 1..Len(calls) :
           ~calls[n].ok => (n = Len(calls) /\ pc = "aborted")
    /\ \A m, n \in 1..Len(calls) :
           (calls[m].rec = calls[n].rec /\ calls[m].kind = calls[n].kind) => m = n
    /\ pc = "aborted" => ~ENABLED Next
    /\ csvfile.state # "absent" =>
           \A r \in 1..Len(Records) : \A k \in 1..Len(Kinds) :
               \E n \in 1..Len(calls) :
                   calls[n].rec = r /\ calls[n].kind = Kinds[k] /\ calls[n].ok

\* C4: the run ended at a failed call of a later record, a row of an
\* earlier record in memory and no output file.
C4_Witness ==
    /\ pc = "aborted"
    /\ calls # <<>>
    /\ ~calls[Len(calls)].ok
    /\ calls[Len(calls)].rec = 2
    /\ Len(Data) = 1
    /\ csvfile.state = "absent"

\* C5: the first row of the output file is the declared column list, in
\* order, and a finished run has written it, data rows or not.
C5_HeaderFirst ==
    /\ csvfile.rows # <<>> =>
           csvfile.rows[1] =
               IF pipeline = "reviews"
               THEN <<"Item", "Company", "Sentiment", "Response Message">>
               ELSE <<"From", "To", "Subject", "Summary", "Translated Summary">>
    /\ \A i \in 1..Len(csvfile.rows) : Len(csvfile.rows[i]) = Len(csvfile.rows[1])
    /\ pc \in {"rows", "done"} => csvfile.rows # <<>>
    /\ pc = "done" => csvfile.state = "closed"

\* C5: a run ended with a file of the header alone.
C5_Witness == pc = "done" /\ csvfile.rows # <<>> /\ DataRows = 0

C7_SentimentPositiveOrNegative ==
    \A j \in 1..Len(reviews) : reviews[j].sentiment \in {"positive", "negative"}

\* C8, as claimed: every call is sent on a session with an empty history.
C8_EveryCallOnEmptyHistory ==
    \A n \in 1..Len(calls) : calls[n].history = <<>>

\* C8, amended: no call is sent on a session that carries anything of
\* another record; the item, sentiment, summary and translation calls are
\* sent on an empty history, the company call on the history of the item
\* exchange of its record, the message call on that of the sentiment
\* exchange of its record.
C8_NoCrossRecordHistory ==
    \A n \in 1..Len(calls) :
        IF calls[n].kind \in {"item", "sentiment", "summary", "translate"}
        THEN calls[n].history = <<>>
        ELSE /\ n > 1
             /\ calls[n - 1].rec = calls[n].rec
             /\ calls[n - 1].kind = IF calls[n].kind = "company" THEN "item" ELSE "sentiment"
             /\ calls[n].history =
                    <<[role |-> "user", text |-> calls[n - 1].prompt],
                      [role |-> "model", text |-> calls[n - 1].text]>>

\* C8: the company call of the second record was sent on a history of one
\* exchange.
C8_Witness ==
    \E n \in 1..Len(calls) :
        /\ calls[n].kind = "company"
        /\ calls[n].rec = 2
        /\ Len(calls[n].history) = 2

\* C10: the calls are issued record by record in input order and, within a
\* record, in the order of the script, each after the one before it has
\* returned; the rows are the completed records, in input order; the
\* translation is of the summary just returned; the reviews script has slept
\* once for every appended row, the last included, by the end of its loop.
C10_OneRecordAtATime ==
    /\ \A n \in 1..Len(calls) :
           /\ calls[n].rec = ((n - 1) \div Len(Kinds)) + 1
           /\ calls[n].kind = Kinds[((n - 1) % Len(Kinds)) + 1]
           /\ n < Len(calls) => calls[n].ok
           /\ calls[n].kind = "item" =>
                  calls[n].prompt = ItemPrompt(Strip(review_content[calls[n].rec]))
           /\ calls[n].kind = "summary" =>
                  calls[n].prompt = SummaryPrompt(emails[calls[n].rec].body)
           /\ calls[n].kind = "translate" =>
                  calls[n].prompt = TranslatePrompt(Strip(calls[n - 1].text))
    /\ Len(Data) = OkCalls \div Len(Kinds)
    /\ \A j \in 1..Len(reviews) :
           /\ reviews[j].sentiment = Strip(calls[4 * j - 1].text)
           /\ reviews[j].response_message = Strip(calls[4 * j].text)
    /\ \A j \in 1..Len(processed_emails) :
           /\ processed_emails[j].From = emails[j].from
           /\ processed_emails[j].Summary = Strip(calls[2 * j - 1].text)
    /\ slept = IF pipeline = "emails" THEN 0
               ELSE IF pc = "sleep" THEN SleepSeconds * (Len(reviews) - 1)
               ELSE SleepSeconds * Len(reviews)
    /\ (pipeline = "reviews" /\ pc \in {"write", "header", "rows", "done"}) =>
           slept = 20 * Len(review_content)

\* C10: a reviews run ended with two different rows and two sleeps.
C10_Witness ==
    /\ pc = "done"
    /\ pipeline = "reviews"
    /\ Len(reviews) = 2
    /\ reviews[1] # reviews[2]
    /\ slept = 2 * SleepSeconds

\* C9: the blocks the record reader obtains are one more than the
\* occurrences of "END" in the stripped file content, and joined by "END"
\* in order they give that content back.
C9_SplitAtEveryDelimiter ==
    idx > 0 =>
        /\ Len(SplitBlocks) = DelimiterCount(Strip(content)) + 1
        /\ Join(SplitBlocks, "END") = Strip(content)

\* C9: a file with two delimiters was read into three blocks.
C9_Witness ==
    /\ idx > 0
    /\ DelimiterCount(Strip(content)) = 2
    /\ Len(SplitBlocks) = 3

=============================================================================
